---- MODULE Spec2Model ----
(***************************************************************************)
(* A model of the rpc package: the service registry (serviceMap: add, get, *)
(* Map), the Server's registration calls (RegisterCodec, RegisterService,  *)
(* RegisterBeforeFunc, RegisterAfterFunc, HasMethod, ServiceMap) and the   *)
(* request pipeline of Server.ServeHTTP.                                   *)
(*                                                                         *)
(* Strings the code parses (method names, content types, service names)    *)
(* are sequences of one-character strings, so that strings.Split,          *)
(* strings.Index and strings.ToLower are computed, not assumed.            *)
(* Go values with identity (services, slices' backing arrays, contexts)    *)
(* live in heaps indexed by small integers.                                *)
(***************************************************************************)
EXTENDS Integers, Sequences, FiniteSets, TLC

VARIABLES
    services,      \* serviceMap.services: service name -> id of a *service
    servicesNil,   \* TRUE while serviceMap.services is the nil map
    svcHeap,       \* id -> service{name, rValue, methods}
    mutex,         \* serviceMap.mutex: the thread holding it, or NoThread
    codecs,        \* Server.codecs: lower-cased content type -> codec
    codecWriters,  \* threads inside the map assignment of RegisterCodec
    beforeFns,     \* Server.beforeFns: a slice header [arr, len, cap]
    afterFns,      \* Server.afterFns: a slice header [arr, len, cap]
    arrays,        \* backing arrays of the two slices: id -> sequence
    hookLog,       \* history: the Register...Func calls that returned nil
    ctxHeap,       \* id -> the context value reflect.New(s.ctxType) made
    pc,            \* per thread: the statement it is at
    loc,           \* per thread: the local variables of its call
    ret,           \* per thread: what its last call returned
    trace,         \* per thread: hooks, decode, handler, encode of its request
    resp,          \* per thread: what its request wrote to the ResponseWriter
    crashed,       \* the runtime ended the process (fatal error)
    calls          \* calls started so far, per kind

vars == <<services, servicesNil, svcHeap, mutex, codecs, codecWriters,
          beforeFns, afterFns, arrays, hookLog, ctxHeap, pc, loc, ret, trace, resp,
          crashed, calls>>

registryVars == <<services, servicesNil, svcHeap, mutex>>
hookVars == <<beforeFns, afterFns, arrays, hookLog>>
codecVars == <<codecs, codecWriters>>

-----------------------------------------------------------------------------
(* Bounds of the model. *)

MaxAdds == 2

MaxLookups == 1

MaxCodecRegs == 2

MaxHookRegs == 4

MaxDispatchHooks == 2

MaxServes == 2

Threads == {"t1", "t2"}

NoThread == "none"

NoErr == "<nil>"

-----------------------------------------------------------------------------
(* Strings. *)

Str(c) == <<c>>

Min(S) == CHOOSE x \in S : \A y \in S : x <= y

\* strings.ToLower on the letters the model uses
ToLowerChar(c) ==
    CASE c = "J" -> "j"
      [] c = "X" -> "x"
      [] OTHER -> c

\* ToLower leaving the letters as they are.
ToLowerNone(s) == s

ToLower(s) == [i \in 1..Len(s) |-> ToLowerChar(s[i])]

\* strings.Index(s, c): the 0-based position of the first c, or -1
Index(s, c) ==
    IF \E i \in 1..Len(s) : s[i] = c
    THEN Min({i \in 1..Len(s) : s[i] = c}) - 1
    ELSE -1

\* strings.Split(s, sep) for a one-character separator: always at least one
\* part; an empty part wherever two separators (or an end) are adjacent.
RECURSIVE SplitFrom(_, _, _, _)
SplitFrom(s, sep, i, cur) ==
    IF i > Len(s) THEN <<cur>>
    ELSE IF s[i] = sep THEN <<cur>> \o SplitFrom(s, sep, i + 1, <<>>)
    ELSE SplitFrom(s, sep, i + 1, Append(cur, s[i]))

Split(s, sep) == SplitFrom(s, sep, 1, <<>>)

-----------------------------------------------------------------------------
(* Types as reflect sees them, and the receivers handed to add. *)

Ptr(e) == [kind |-> "ptr", elem |-> e]

Val(k, n) == [kind |-> k, elem |-> n]

ErrorType == Val("interface", "error")

RequestType == "http.Request"

\* Server.ctxType, fixed by NewServer(new(Context))
ctxType == "Context"

Sig(n, ins, outs) == [Name |-> n, PkgPath |-> "", In |-> ins, Out |-> outs]

\* func (*TestService) Hello(ctx *Context, args *struct{}, reply *struct{}) error
Hello(rt) == Sig(Str("H"),
                 <<Ptr(rt), Ptr("Context"), Ptr("Args"), Ptr("Reply")>>,
                 <<ErrorType>>)

\* The method sets of the receiver types, in reflect's (sorted) order.
TypeMethods(ty) ==
    CASE ty = "TestService" -> <<Hello(ty)>>
      [] ty = "Embedding" -> <<Hello(ty)>>
      [] ty = "Mixed" ->
           << Sig(Str("A"), <<Ptr(ty), Ptr("Other"), Ptr("Args"), Ptr("Reply")>>,
                  <<ErrorType>>),
              Sig(Str("B"), <<Ptr(ty), Ptr("Context"), Val("struct", "Args"), Ptr("Reply")>>,
                  <<ErrorType>>),
              Sig(Str("C"), <<Ptr(ty), Ptr("Context"), Ptr("Args"), Ptr("Reply")>>,
                  <<>>),
              Sig(Str("G"), <<Ptr(ty), Ptr("Context"), Ptr("Args2"), Ptr("Reply2")>>,
                  <<ErrorType>>),
              Hello(ty) >>
      [] ty = "Unsuitable" ->
           << Sig(Str("A"), <<Ptr(ty), Ptr("Context"), Ptr("Args")>>,
                  <<ErrorType>>),
              Sig(Str("B"), <<Ptr(ty), Val("struct", "Context"), Ptr("Args"), Ptr("Reply")>>,
                  <<ErrorType>>),
              Sig(Str("C"), <<Ptr(ty), Ptr("Context"), Ptr("Args"), Val("struct", "Reply")>>,
                  <<ErrorType>>),
              Sig(Str("D"), <<Ptr(ty), Ptr("Context"), Ptr("Args"), Ptr("Reply")>>,
                  <<ErrorType, ErrorType>>),
              Sig(Str("E"), <<Ptr(ty), Ptr("Context"), Ptr("Args"), Ptr("Reply")>>,
                  <<Val("bool", "bool")>>) >>
      [] OTHER -> <<>>

\* reflect.Indirect(rValue).Type().Name(): "" for an unnamed struct type
TypeName(ty) ==
    CASE ty = "TestService" -> Str("T")
      [] ty = "Mixed" -> Str("M")
      [] ty = "Unsuitable" -> Str("U")
      [] OTHER -> <<>>

NilRcvr == [type |-> "nil", ptr |-> 0]

Rcvr(ty, p) == [type |-> ty, ptr |-> p]

\* The values add is called with: nil, a *TestService, a *Mixed, a *Unsuitable
\* (no suitable method) and a pointer to an unnamed struct type embedding
\* *TestService (no type name, Hello promoted).
Receivers ==
    { NilRcvr, Rcvr("TestService", 1), Rcvr("Mixed", 2), Rcvr("Unsuitable", 3),
      Rcvr("Embedding", 4) }

\* The name argument of add: empty, two plain names, the type name of
\* TestService, and a name holding a dot.
ServiceNames ==
    { <<>>, Str("S"), Str("T"), <<"S", ".", "T">> }

\* The strings handed to get.
MethodStrings ==
    { <<"T", ".", "H">>, <<"S", ".", "H">>, <<"S", ".", "G">>, <<"M", ".", "G">>,
      <<"S", ".", "T", ".", "H">>, <<"T", "H">>, <<"T", ".">>, <<".", "H">>,
      <<"Z", ".", "H">>, <<"T", ".", "Z">> }

-----------------------------------------------------------------------------
(* serviceMap.add *)

\* Suitable without the test of the context parameter's type: any pointer
\* is taken as the context.
SuitableAnyCtx(m, ctxT) ==
    /\ m.PkgPath = ""
    /\ Len(m.In) = 4
    /\ m.In[2].kind = "ptr"
    /\ m.In[3].kind = "ptr"
    /\ m.In[4].kind = "ptr"
    /\ Len(m.Out) = 1
    /\ m.Out[1] = ErrorType

\* Suitable without the tests of the result: a method returning nothing, two
\* values or a non-error is kept.
SuitableAnyResult(m, ctxT) ==
    /\ m.PkgPath = ""
    /\ Len(m.In) = 4
    /\ m.In[2].kind = "ptr" /\ m.In[2].elem = ctxT
    /\ m.In[3].kind = "ptr"
    /\ m.In[4].kind = "ptr"

\* The conditions of the method scan: the method is kept iff none hits.
Suitable(m, ctxT) ==
    /\ m.PkgPath = ""
    /\ Len(m.In) = 4
    /\ m.In[2].kind = "ptr" /\ m.In[2].elem = ctxT
    /\ m.In[3].kind = "ptr"
    /\ m.In[4].kind = "ptr"
    /\ Len(m.Out) = 1
    /\ m.Out[1] = ErrorType

\* ScanMethods leaving the descriptors' back-reference to the service unset.
RECURSIVE ScanMethodsNoOwner(_, _, _, _, _)
ScanMethodsNoOwner(ms, i, ctxT, sid, acc) ==
    IF i > Len(ms) THEN acc
    ELSE LET m == ms[i] IN
         IF Suitable(m, ctxT)
         THEN ScanMethodsNoOwner(ms, i + 1, ctxT, sid,
                  (m.Name :> [service |-> 0, method |-> m.Name,
                              argsType |-> m.In[3].elem,
                              replyType |-> m.In[4].elem]) @@ acc)
         ELSE ScanMethodsNoOwner(ms, i + 1, ctxT, sid, acc)

\* The loop over the receiver's methods: s.methods[m.Name] = &serviceMethod{...}
RECURSIVE ScanMethods(_, _, _, _, _)
ScanMethods(ms, i, ctxT, sid, acc) ==
    IF i > Len(ms) THEN acc
    ELSE LET m == ms[i] IN
         IF Suitable(m, ctxT)
         THEN ScanMethods(ms, i + 1, ctxT, sid,
                  (m.Name :> [service |-> sid, method |-> m.Name,
                              argsType |-> m.In[3].elem,
                              replyType |-> m.In[4].elem]) @@ acc)
         ELSE ScanMethods(ms, i + 1, ctxT, sid, acc)

\* ResolveName with the precedence reversed: the type's name wins over the
\* name argument.
ResolveNameTypeFirst(rcvr, name) ==
    IF Len(TypeName(rcvr.type)) = 0 THEN name ELSE TypeName(rcvr.type)

\* if len(s.name) == 0 { s.name = reflect.Indirect(s.rValue).Type().Name() }
ResolveName(rcvr, name) ==
    IF Len(name) = 0 THEN TypeName(rcvr.type) ELSE name

\* a pointer not in use: the id of a new heap object
NewId(heap) == Min({i \in 1..(Cardinality(DOMAIN heap) + 1) : i \notin DOMAIN heap})

Drop(heap, ids) == [i \in DOMAIN heap \ ids |-> heap[i]]

IdleLoc == [op |-> "none"]

Return(t, r) ==
    /\ pc' = [pc EXCEPT ![t] = "idle"]
    /\ loc' = [loc EXCEPT ![t] = IdleLoc]
    /\ ret' = [ret EXCEPT ![t] = r]

Count(kind) == calls' = [calls EXCEPT ![kind] = @ + 1]

\* what add returns, with the arguments it was called with
AddRet(err, sid, rcvr, name) ==
    [op |-> "add", err |-> err, s |-> sid, rcvr |-> rcvr.type, name |-> name]

\* add, up to m.mutex.Lock(): everything here is local to the caller
AddCall(t, rcvr, name) ==
    /\ pc[t] = "idle"
    /\ calls.add < MaxAdds
    /\ Count("add")
    /\ LET sid == NewId(svcHeap)
           resolved == ResolveName(rcvr, name)
           methods == ScanMethods(TypeMethods(rcvr.type), 1, ctxType, sid, <<>>)
       IN  IF rcvr = NilRcvr
           THEN /\ Return(t, AddRet("nil rcvr", 0, rcvr, name))
                /\ UNCHANGED svcHeap
           ELSE IF resolved = <<>>
           THEN /\ Return(t, AddRet("no service name", 0, rcvr, name))
                /\ UNCHANGED svcHeap
           ELSE IF DOMAIN methods = {}
           THEN /\ Return(t, AddRet("no exported methods", 0, rcvr, name))
                /\ UNCHANGED svcHeap
           ELSE /\ svcHeap' = (sid :> [name |-> resolved, rValue |-> rcvr,
                                        methods |-> methods]) @@ svcHeap
                /\ pc' = [pc EXCEPT ![t] = "add_lock"]
                /\ loc' = [loc EXCEPT ![t] = [op |-> "add", s |-> sid, name |-> name]]
                /\ UNCHANGED ret
    /\ UNCHANGED <<services, servicesNil, mutex, codecVars, hookVars, ctxHeap,
                   trace, resp, crashed>>

\* Lock without mutual exclusion.
CanLockAlways(t) == TRUE

\* m.mutex.Lock() succeeds only while nobody holds the mutex
CanLock(t) == mutex = NoThread

Lock(t, next) ==
    /\ CanLock(t)
    /\ mutex' = t
    /\ pc' = [pc EXCEPT ![t] = next]

AddLock(t) ==
    /\ pc[t] = "add_lock"
    /\ Lock(t, "add_check")
    /\ UNCHANGED <<services, servicesNil, svcHeap, codecVars, hookVars, ctxHeap,
                   loc, ret, trace, resp, crashed, calls>>

\* add without the test for a service of the same name.
AlreadyDefinedNever(name) == FALSE

\* else if _, ok := m.services[s.name]; ok
AlreadyDefined(name) == name \in DOMAIN services

\* if m.services == nil { make } else if defined { return error }
AddCheck(t) ==
    /\ pc[t] = "add_check"
    /\ LET sid == loc[t].s IN
       IF servicesNil
       THEN /\ servicesNil' = FALSE
            /\ pc' = [pc EXCEPT ![t] = "add_store"]
            /\ UNCHANGED <<svcHeap, mutex, loc, ret>>
       ELSE IF AlreadyDefined(svcHeap[sid].name)
       THEN /\ Return(t, AddRet("already defined", sid, svcHeap[sid].rValue,
                                 loc[t].name))
            /\ svcHeap' = Drop(svcHeap, {sid})
            /\ mutex' = NoThread
            /\ UNCHANGED servicesNil
       ELSE /\ pc' = [pc EXCEPT ![t] = "add_store"]
            /\ UNCHANGED <<servicesNil, svcHeap, mutex, loc, ret>>
    /\ UNCHANGED <<services, codecVars, hookVars, ctxHeap, trace, resp,
                   crashed, calls>>

\* the service that a store under name replaces becomes garbage
Replaced(name) == IF name \in DOMAIN services THEN {services[name]} ELSE {}

\* AddStore putting the service into a new map: the services stored before
\* are gone.
AddStoreNewMap(t) ==
    /\ pc[t] = "add_store"
    /\ LET sid == loc[t].s
           name == svcHeap[sid].name
       IN  /\ services' = (name :> sid)
           /\ svcHeap' = Drop(svcHeap, {services[k] : k \in DOMAIN services} \ {sid})
           /\ Return(t, AddRet(NoErr, sid, svcHeap[sid].rValue, loc[t].name))
    /\ mutex' = NoThread
    /\ UNCHANGED <<servicesNil, codecVars, hookVars, ctxHeap, trace, resp,
                   crashed, calls>>

\* m.services[s.name] = s; return nil (the deferred Unlock runs)
AddStore(t) ==
    /\ pc[t] = "add_store"
    /\ LET sid == loc[t].s
           name == svcHeap[sid].name
       IN  /\ services' = (name :> sid) @@ services
           /\ svcHeap' = Drop(svcHeap, Replaced(name) \ {sid})
           /\ Return(t, AddRet(NoErr, sid, svcHeap[sid].rValue, loc[t].name))
    /\ mutex' = NoThread
    /\ UNCHANGED <<servicesNil, codecVars, hookVars, ctxHeap, trace, resp,
                   crashed, calls>>

-----------------------------------------------------------------------------
(* serviceMap.get, Server.HasMethod *)

NoMethod == [service |-> 0, method |-> <<>>, argsType |-> "", replyType |-> ""]

\* service := m.services[parts[0]]; serviceMethod := service.methods[parts[1]]
Lookup(parts) ==
    IF parts[1] \notin DOMAIN services
    THEN [err |-> "can't find service", method |-> NoMethod]
    ELSE LET svc == svcHeap[services[parts[1]]] IN
         IF parts[2] \notin DOMAIN svc.methods
         THEN [err |-> "can't find method", method |-> NoMethod]
         ELSE [err |-> NoErr, method |-> svc.methods[parts[2]]]

\* IllFormed letting through a string with more than two parts.
IllFormedOnlyShort(parts) == Len(parts) < 2

\* get's test before it takes the mutex: len(parts) != 2
IllFormed(parts) == Len(parts) # 2

\* HasMethod(name): _, err := s.services.get(name); return err == nil
HasMethodCall(t, name) ==
    /\ pc[t] = "idle"
    /\ calls.lookup < MaxLookups
    /\ Count("lookup")
    /\ LET parts == Split(name, ".") IN
       IF IllFormed(parts)
       THEN /\ Return(t, [op |-> "has", val |-> FALSE, method |-> NoMethod])
       ELSE /\ pc' = [pc EXCEPT ![t] = "get_lock"]
            /\ loc' = [loc EXCEPT ![t] = [op |-> "has", name |-> name,
                                           parts |-> parts]]
            /\ UNCHANGED ret
    /\ UNCHANGED <<registryVars, codecVars, hookVars, ctxHeap, trace, resp,
                   crashed>>

GetLock(t) ==
    /\ pc[t] = "get_lock"
    /\ Lock(t, "get_read")
    /\ UNCHANGED <<services, servicesNil, svcHeap, codecVars, hookVars, ctxHeap,
                   loc, ret, trace, resp, crashed, calls>>

\* get's lookups under the mutex, for HasMethod
HasMethodRead(t) ==
    /\ pc[t] = "get_read"
    /\ loc[t].op = "has"
    /\ LET got == Lookup(loc[t].parts) IN
       Return(t, [op |-> "has", val |-> (got.err = NoErr), method |-> got.method])
    /\ mutex' = NoThread
    /\ UNCHANGED <<services, servicesNil, svcHeap, codecVars, hookVars, ctxHeap,
                   trace, resp, crashed, calls>>

-----------------------------------------------------------------------------
(* serviceMap.Map, Server.ServiceMap *)

\* the orders in which a range over a Go map can visit the keys in S
Orders(S) ==
    {q \in [1..Cardinality(S) -> S] : \A x \in S : \E i \in DOMAIN q : q[i] = x}

\* for _, s := range m.services { ret[s.name] = the keys of s.methods }
MapResults ==
    LET live == {services[k] : k \in DOMAIN services}
        names == {svcHeap[i].name : i \in live}
        of(n) == CHOOSE i \in live : svcHeap[i].name = n
    IN  {r \in [names -> UNION {Orders(DOMAIN svcHeap[i].methods) : i \in live}] :
            \A n \in names : r[n] \in Orders(DOMAIN svcHeap[of(n)].methods)}

MapCall(t) ==
    /\ pc[t] = "idle"
    /\ calls.lookup < MaxLookups
    /\ Count("lookup")
    /\ pc' = [pc EXCEPT ![t] = "map_lock"]
    /\ loc' = [loc EXCEPT ![t] = [op |-> "map"]]
    /\ UNCHANGED <<registryVars, codecVars, hookVars, ctxHeap, ret, trace, resp,
                   crashed>>

MapLock(t) ==
    /\ pc[t] = "map_lock"
    /\ Lock(t, "map_read")
    /\ UNCHANGED <<services, servicesNil, svcHeap, codecVars, hookVars, ctxHeap,
                   loc, ret, trace, resp, crashed, calls>>

MapRead(t) ==
    /\ pc[t] = "map_read"
    /\ \E r \in MapResults : Return(t, [op |-> "map", val |-> r])
    /\ mutex' = NoThread
    /\ UNCHANGED <<services, servicesNil, svcHeap, codecVars, hookVars, ctxHeap,
                   trace, resp, crashed, calls>>

-----------------------------------------------------------------------------
(* Server.RegisterCodec *)

Codecs == {"jsonCodec", "xmlCodec"}

\* the contentType argument of RegisterCodec
CodecContentTypes == { Str("j"), Str("J"), Str("x"), <<>> }

\* s.codecs[strings.ToLower(contentType)] = codec: the map assignment begins ...
RegisterCodecCall(t, codec, contentType) ==
    /\ pc[t] = "idle"
    /\ calls.codec < MaxCodecRegs
    /\ Count("codec")
    /\ pc' = [pc EXCEPT ![t] = "codec_assign"]
    /\ loc' = [loc EXCEPT ![t] = [op |-> "codec", key |-> ToLower(contentType),
                                   codec |-> codec, contentType |-> contentType]]
    /\ codecWriters' = codecWriters \cup {t}
    /\ UNCHANGED <<registryVars, codecs, hookVars, ctxHeap, ret, trace, resp,
                   crashed>>

\* ... and ends: the entry is in the table
RegisterCodecAssign(t) ==
    /\ pc[t] = "codec_assign"
    /\ codecs' = (loc[t].key :> loc[t].codec) @@ codecs
    /\ codecWriters' = codecWriters \ {t}
    /\ Return(t, [op |-> "codec", key |-> loc[t].key, codec |-> loc[t].codec,
                  contentType |-> loc[t].contentType])
    /\ UNCHANGED <<registryVars, hookVars, ctxHeap, trace, resp, crashed, calls>>

\* the threads reading the codec table: ServeHTTP between its test of the
\* verb and the codec it ends up with
CodecReaders == {t \in Threads : pc[t] = "serve_codec"}

\* a map write is in progress while another thread reads or writes the map
CodecRace ==
    \E w \in codecWriters : \E u \in (codecWriters \cup CodecReaders) : u # w

\* Go's maps are not safe for concurrent use: the runtime may end the process
\* ("fatal error: concurrent map read and map write" / "concurrent map writes")
ConcurrentMapFatal ==
    /\ ~crashed
    /\ CodecRace
    /\ crashed' = TRUE
    /\ pc' = [t \in Threads |-> "fatal"]
    /\ UNCHANGED <<registryVars, codecVars, hookVars, ctxHeap, loc, ret, trace,
                   resp, calls>>

-----------------------------------------------------------------------------
(* Server.RegisterBeforeFunc, Server.RegisterAfterFunc, validCtxFunc *)

FuncType(ins, outs) == [kind |-> "func", In |-> ins, Out |-> outs]

HookType == FuncType(<<Ptr(RequestType), Ptr("Context")>>, <<ErrorType>>)

\* reflect.ValueOf(fn).Type() of the values handed to the Register...Func calls
FnType(fn) ==
    CASE fn \in {"FetchAuthToken", "Logger", "Deny"} -> HookType
      [] fn = "NotFunc" -> [kind |-> "int", In |-> <<>>, Out |-> <<>>]
      [] fn = "OneParam" -> FuncType(<<Ptr("Context")>>, <<ErrorType>>)
      [] fn = "NoReturn" -> FuncType(<<Ptr(RequestType), Ptr("Context")>>, <<>>)
      [] fn = "ReqByValue" ->
           FuncType(<<Val("struct", RequestType), Ptr("Context")>>, <<ErrorType>>)
      [] fn = "OtherReq" ->
           FuncType(<<Ptr("Other"), Ptr("Context")>>, <<ErrorType>>)
      [] fn = "CtxByValue" ->
           FuncType(<<Ptr(RequestType), Val("struct", "Context")>>, <<ErrorType>>)
      [] fn = "OtherCtx" ->
           FuncType(<<Ptr(RequestType), Ptr("Other")>>, <<ErrorType>>)
      [] fn = "ReturnsBool" ->
           FuncType(<<Ptr(RequestType), Ptr("Context")>>, <<Val("bool", "bool")>>)

ValidFns == {"FetchAuthToken", "Logger", "Deny"}

InvalidFns == {"nil", "NotFunc", "OneParam", "NoReturn", "ReqByValue", "OtherReq",
               "CtxByValue", "OtherCtx", "ReturnsBool"}

\* validCtxFunc without the test of the result's type.
validCtxFuncAnyResult(fn, ctxT) ==
    IF fn = "nil" THEN "middleware is nil"
    ELSE LET ty == FnType(fn) IN
         IF ty.kind # "func" THEN "middleware is not func type"
         ELSE IF Len(ty.In) # 2 THEN "middleware ill-fromed"
         ELSE IF Len(ty.Out) # 1 THEN "middleware ill-fromed"
         ELSE IF ty.In[1].kind # "ptr" \/ ty.In[1].elem # RequestType
              THEN "middleware ill-fromed"
         ELSE IF ty.In[2].kind # "ptr" \/ ty.In[2].elem # ctxT
              THEN "middleware ill-fromed"
         ELSE NoErr

validCtxFunc(fn, ctxT) ==
    IF fn = "nil" THEN "middleware is nil"
    ELSE LET ty == FnType(fn) IN
         IF ty.kind # "func" THEN "middleware is not func type"
         ELSE IF Len(ty.In) # 2 THEN "middleware ill-fromed"
         ELSE IF Len(ty.Out) # 1 THEN "middleware ill-fromed"
         ELSE IF ty.In[1].kind # "ptr" \/ ty.In[1].elem # RequestType
              THEN "middleware ill-fromed"
         ELSE IF ty.In[2].kind # "ptr" \/ ty.In[2].elem # ctxT
              THEN "middleware ill-fromed"
         ELSE IF ty.Out[1] # ErrorType THEN "middleware ill-fromed"
         ELSE NoErr

NilSlice == [arr |-> 0, len |-> 0, cap |-> 0]

ZeroValue == "zero"

\* the runtime's growth of a full slice: double, or the needed length if more
GrowCap(oldCap, newLen) == IF newLen > 2 * oldCap THEN newLen ELSE 2 * oldCap

\* AppendFn growing into a new array without copying the old elements.
AppendFnNoCopy(sl, v, arrs) ==
    IF sl.len < sl.cap
    THEN [slice |-> [sl EXCEPT !.len = @ + 1],
          arrays |-> [arrs EXCEPT ![sl.arr][sl.len + 1] = v]]
    ELSE LET a == NewId(arrs)
             c == GrowCap(sl.cap, sl.len + 1)
         IN  [slice |-> [arr |-> a, len |-> sl.len + 1, cap |-> c],
              arrays |-> (a :> [i \in 1..c |->
                                   IF i = sl.len + 1 THEN v ELSE ZeroValue]) @@ arrs]

\* append(sl, v): in place when the capacity allows, else into a new array
AppendFn(sl, v, arrs) ==
    IF sl.len < sl.cap
    THEN [slice |-> [sl EXCEPT !.len = @ + 1],
          arrays |-> [arrs EXCEPT ![sl.arr][sl.len + 1] = v]]
    ELSE LET a == NewId(arrs)
             c == GrowCap(sl.cap, sl.len + 1)
         IN  [slice |-> [arr |-> a, len |-> sl.len + 1, cap |-> c],
              arrays |-> (a :> [i \in 1..c |->
                                   IF i <= sl.len THEN arrs[sl.arr][i]
                                   ELSE IF i = sl.len + 1 THEN v
                                   ELSE ZeroValue]) @@ arrs]

\* the elements of a slice
Elems(sl, arrs) == [i \in 1..sl.len |-> arrs[sl.arr][i]]

\* the slice headers a dispatch holds in its range loops
Captured == {loc[t].fns : t \in {u \in Threads : pc[u] \in {"serve_before", "serve_after"}}}

\* arrays no slice refers to are garbage
Collect(arrs, roots) ==
    [a \in DOMAIN arrs \cap ({r.arr : r \in roots} \cup {c.arr : c \in Captured})
       |-> arrs[a]]

\* the fn argument of the Register...Func calls
HookFns == ValidFns \cup InvalidFns

RegisterBeforeFunc(t, fn) ==
    /\ pc[t] = "idle"
    /\ calls.hook < MaxHookRegs
    /\ Count("hook")
    /\ LET err == validCtxFunc(fn, ctxType)
           app == AppendFn(beforeFns, fn, arrays)
       IN  IF err # NoErr
           THEN /\ Return(t, [op |-> "before", fn |-> fn, err |-> err])
                /\ UNCHANGED hookVars
           ELSE /\ beforeFns' = app.slice
                /\ arrays' = Collect(app.arrays, {app.slice, afterFns})
                /\ hookLog' = Append(hookLog, [kind |-> "before", fn |-> fn])
                /\ Return(t, [op |-> "before", fn |-> fn, err |-> NoErr])
                /\ UNCHANGED afterFns
    /\ UNCHANGED <<registryVars, codecVars, ctxHeap, trace, resp, crashed>>

\* the slice RegisterAfterFunc appends to: append(s.beforeFns, ...)
AfterAppendBase == beforeFns

RegisterAfterFunc(t, fn) ==
    /\ pc[t] = "idle"
    /\ calls.hook < MaxHookRegs
    /\ Count("hook")
    /\ LET err == validCtxFunc(fn, ctxType)
           app == AppendFn(AfterAppendBase, fn, arrays)
       IN  IF err # NoErr
           THEN /\ Return(t, [op |-> "after", fn |-> fn, err |-> err])
                /\ UNCHANGED hookVars
           ELSE /\ afterFns' = app.slice
                /\ arrays' = Collect(app.arrays, {beforeFns, app.slice})
                /\ hookLog' = Append(hookLog, [kind |-> "after", fn |-> fn])
                /\ Return(t, [op |-> "after", fn |-> fn, err |-> NoErr])
                /\ UNCHANGED beforeFns
    /\ UNCHANGED <<registryVars, codecVars, ctxHeap, trace, resp, crashed>>

-----------------------------------------------------------------------------
(* Server.ServeHTTP *)

\* the Content-Type header of a request
RequestContentTypes == { <<>>, Str("j"), <<"J", ";", "c">>, Str("x") }

\* the Authorization header of a request
AuthTokens == {"", "MyToken"}

Requests == [verb : {"POST", "GET"}, contentType : RequestContentTypes,
             auth : AuthTokens]

NoCodec == "nil"

ZeroCtx == [AuthToken |-> ""]

ZeroReply == [Text |-> ""]

\* what a request did: a hook, the decoding, the method or the encoding ran,
\* saw the context ctxv and returned err
Event(ev, fn, ctxv, err) == [ev |-> ev, fn |-> fn, ctx |-> ctxv, err |-> err]

Response(status, err, via, reply, nosniff) ==
    [status |-> status, err |-> err, via |-> via, reply |-> reply,
     nosniff |-> nosniff]

\* the response is written and ServeHTTP returns; its context is garbage
Finish(t, r) ==
    /\ resp' = [resp EXCEPT ![t] = Append(@, r)]
    /\ Return(t, [op |-> "serve", status |-> r.status, req |-> loc[t].req])

\* codecReq.WriteError(w, 400, err); return
Fail400(t, err) == Finish(t, Response(400, err, loc[t].codec, ZeroReply, FALSE))

\* idx := strings.Index(contentType, ";"); if idx != -1 { contentType = contentType[:idx] }
StripParams(contentType) ==
    LET idx == Index(contentType, ";") IN
    IF idx # -1 THEN SubSeq(contentType, 1, idx) ELSE contentType

\* the verb test and the Content-Type header
ServeHTTP(t, req) ==
    /\ pc[t] = "idle"
    /\ calls.serve < MaxServes
    /\ Count("serve")
    /\ trace' = [trace EXCEPT ![t] = <<>>]
    /\ IF req.verb # "POST"
       THEN /\ resp' = [resp EXCEPT ![t] =
                           <<Response(405, "POST method required", "plain",
                                      ZeroReply, FALSE)>>]
            /\ Return(t, [op |-> "serve", status |-> 405, req |-> req])
       ELSE /\ resp' = [resp EXCEPT ![t] = <<>>]
            /\ pc' = [pc EXCEPT ![t] = "serve_codec"]
            /\ loc' = [loc EXCEPT ![t] =
                          [op |-> "serve", req |-> req,
                           contentType |-> StripParams(req.contentType)]]
            /\ UNCHANGED ret
    /\ UNCHANGED <<registryVars, codecVars, hookVars, ctxHeap, crashed>>

\* the codec table as a read can find it: as it is, or with the entry of a
\* write in progress already in it
CodecViews ==
    {codecs} \cup {(loc[w].key :> loc[w].codec) @@ codecs : w \in codecWriters}

\* SelectCodec taking any registered codec when there is no Content-Type,
\* however many are registered.
SelectCodecAnyDefault(table, contentType) ==
    IF contentType = <<>> /\ DOMAIN table # {}
    THEN table[CHOOSE k \in DOMAIN table : TRUE]
    ELSE IF ToLower(contentType) \in DOMAIN table
    THEN table[ToLower(contentType)]
    ELSE NoCodec

\* the codec of a request: the only one when there is no Content-Type,
\* else the one registered under the lower-cased Content-Type, else nil
SelectCodec(table, contentType) ==
    IF contentType = <<>> /\ Cardinality(DOMAIN table) = 1
    THEN table[CHOOSE k \in DOMAIN table : TRUE]
    ELSE IF ToLower(contentType) \in DOMAIN table
    THEN table[ToLower(contentType)]
    ELSE NoCodec

ServeCodec(t) ==
    /\ pc[t] = "serve_codec"
    /\ \E table \in CodecViews :
         LET codec == SelectCodec(table, loc[t].contentType) IN
         IF codec = NoCodec
         THEN Finish(t, Response(415, "unrecognized Content-Type", "plain",
                                 ZeroReply, FALSE))
         ELSE /\ pc' = [pc EXCEPT ![t] = "serve_method"]
              /\ loc' = [loc EXCEPT ![t] = [codec |-> codec] @@ @]
              /\ UNCHANGED <<ret, resp>>
    /\ UNCHANGED <<registryVars, codecVars, hookVars, ctxHeap, trace, crashed,
                   calls>>

\* what codecReq.Method() can return: a method string, or an error
MethodErr == <<"!">>

\* codecReq := codec.NewRequest(r); method, errMethod := codecReq.Method();
\* then get's split of the method string
ServeMethod(t, m) ==
    /\ pc[t] = "serve_method"
    /\ IF m = MethodErr
       THEN Fail400(t, "errMethod")
       ELSE LET parts == Split(m, ".") IN
            IF IllFormed(parts)
            THEN Fail400(t, "ill-formed")
            ELSE /\ pc' = [pc EXCEPT ![t] = "get_lock"]
                 /\ loc' = [loc EXCEPT ![t] = [parts |-> parts] @@ @]
                 /\ UNCHANGED <<ret, resp>>
    /\ UNCHANGED <<registryVars, codecVars, hookVars, ctxHeap, trace, crashed,
                   calls>>

\* one context object, made once and used by every request
NewCtxShared == Min(1..(Cardinality(DOMAIN ctxHeap) + 1))

\* ctx := reflect.New(s.ctxType): a new object
NewCtx == NewId(ctxHeap)

\* where ServeHTTP goes on once it is at index i of a range over fns
LoopOrNext(t, fns, i, looppc, nextpc, l) ==
    IF i < fns.len
    THEN /\ pc' = [pc EXCEPT ![t] = looppc]
         /\ loc' = [loc EXCEPT ![t] = [fns |-> fns, i |-> i] @@ l]
    ELSE /\ pc' = [pc EXCEPT ![t] = nextpc]
         /\ loc' = [loc EXCEPT ![t] = l]

\* get's lookups under the mutex, for ServeHTTP; then the new context and
\* the start of the range over s.beforeFns
ServeGet(t) ==
    /\ pc[t] = "get_read"
    /\ loc[t].op = "serve"
    /\ mutex' = NoThread
    /\ LET got == Lookup(loc[t].parts) IN
       IF got.err # NoErr
       THEN /\ Fail400(t, got.err)
            /\ UNCHANGED ctxHeap
       ELSE LET c == NewCtx IN
            /\ ctxHeap' = (c :> ZeroCtx) @@ ctxHeap
            /\ LoopOrNext(t, beforeFns, 0, "serve_before", "serve_decode",
                          [methodSpec |-> got.method, ctx |-> c] @@ loc[t])
            /\ UNCHANGED <<ret, resp>>
    /\ UNCHANGED <<services, servicesNil, svcHeap, codecVars, hookVars, trace,
                   crashed, calls>>

\* what the registered functions do when called with (r, ctx)
RunHook(fn, req, ctxv) ==
    CASE fn = "FetchAuthToken" -> [err |-> NoErr, ctx |-> [ctxv EXCEPT !.AuthToken = req.auth]]
      [] fn = "Logger" -> [err |-> NoErr, ctx |-> ctxv]
      [] fn = "Deny" -> [err |-> "denied", ctx |-> ctxv]

\* RunLoop going on to the next hook whatever the hook returned.
RunLoopNoAbort(t, ev, looppc, nextpc) ==
    LET l == loc[t]
        fn == arrays[l.fns.arr][l.i + 1]
        seen == ctxHeap[l.ctx]
        out == RunHook(fn, l.req, seen)
    IN  /\ trace' = [trace EXCEPT ![t] = Append(@, Event(ev, fn, seen, out.err))]
        /\ ctxHeap' = [ctxHeap EXCEPT ![l.ctx] = out.ctx]
        /\ LoopOrNext(t, l.fns, l.i + 1, looppc, nextpc, l)
        /\ UNCHANGED <<ret, resp>>

\* one iteration of a range over hooks: reflectFuncCall(fn, {rValue, ctx})
RunLoop(t, ev, looppc, nextpc) ==
    LET l == loc[t]
        fn == arrays[l.fns.arr][l.i + 1]
        seen == ctxHeap[l.ctx]
        out == RunHook(fn, l.req, seen)
    IN  /\ trace' = [trace EXCEPT ![t] = Append(@, Event(ev, fn, seen, out.err))]
        /\ IF out.err # NoErr
           THEN /\ Fail400(t, out.err)
                /\ ctxHeap' = Drop(ctxHeap, {l.ctx})
           ELSE /\ ctxHeap' = [ctxHeap EXCEPT ![l.ctx] = out.ctx]
                /\ LoopOrNext(t, l.fns, l.i + 1, looppc, nextpc, l)
                /\ UNCHANGED <<ret, resp>>

ServeBefore(t) ==
    /\ pc[t] = "serve_before"
    /\ RunLoop(t, "before", "serve_before", "serve_decode")
    /\ UNCHANGED <<registryVars, codecVars, hookVars, crashed, calls>>

\* what codecReq.ReadRequest(args) can do: fill args, or fail
DecodeErr == "errRead"

ArgTexts == {"hi"}

\* ServeDecode going on to the method whatever ReadRequest returned.
ServeDecodeIgnoreErr(t, a) ==
    /\ pc[t] = "serve_decode"
    /\ trace' = [trace EXCEPT ![t] =
                    Append(@, Event("decode", "", ctxHeap[loc[t].ctx],
                                    IF a = DecodeErr THEN DecodeErr ELSE NoErr))]
    /\ pc' = [pc EXCEPT ![t] = "serve_call"]
    /\ loc' = [loc EXCEPT ![t] = [args |-> [Text |-> a]] @@ @]
    /\ UNCHANGED <<ctxHeap, ret, resp>>
    /\ UNCHANGED <<registryVars, codecVars, hookVars, crashed, calls>>

\* args := reflect.New(methodSpec.argsType); codecReq.ReadRequest(args.Interface())
ServeDecode(t, a) ==
    /\ pc[t] = "serve_decode"
    /\ trace' = [trace EXCEPT ![t] =
                    Append(@, Event("decode", "", ctxHeap[loc[t].ctx],
                                    IF a = DecodeErr THEN DecodeErr ELSE NoErr))]
    /\ IF a = DecodeErr
       THEN /\ Fail400(t, DecodeErr)
            /\ ctxHeap' = Drop(ctxHeap, {loc[t].ctx})
       ELSE /\ pc' = [pc EXCEPT ![t] = "serve_call"]
            /\ loc' = [loc EXCEPT ![t] = [args |-> [Text |-> a]] @@ @]
            /\ UNCHANGED <<ctxHeap, ret, resp>>
    /\ UNCHANGED <<registryVars, codecVars, hookVars, crashed, calls>>

\* what the registered methods do when called with (rcvr, ctx, args, reply)
RunMethod(m, ctxv, args) ==
    IF m.method = Str("H")
    THEN IF ctxv.AuthToken # "MyToken"
         THEN [err |-> "authorization fail", reply |-> ZeroReply]
         ELSE [err |-> NoErr, reply |-> [Text |-> args.Text]]
    ELSE [err |-> NoErr, reply |-> [Text |-> "g"]]

\* ServeCall going on to the after functions whatever the method returned.
ServeCallIgnoreErr(t) ==
    /\ pc[t] = "serve_call"
    /\ LET l == loc[t]
           seen == ctxHeap[l.ctx]
           out == RunMethod(l.methodSpec, seen, l.args)
       IN  /\ trace' = [trace EXCEPT ![t] =
                           Append(@, Event("handler", l.methodSpec.method, seen,
                                           out.err))]
           /\ LoopOrNext(t, afterFns, 0, "serve_after", "serve_reply",
                         [reply |-> out.reply] @@ l)
           /\ UNCHANGED <<ctxHeap, ret, resp>>
    /\ UNCHANGED <<registryVars, codecVars, hookVars, crashed, calls>>

\* ServeCall handing the method a new zero-valued context instead of the
\* one the before functions were given.
ServeCallZeroCtx(t) ==
    /\ pc[t] = "serve_call"
    /\ LET l == loc[t]
           seen == ZeroCtx
           out == RunMethod(l.methodSpec, seen, l.args)
       IN  /\ trace' = [trace EXCEPT ![t] =
                           Append(@, Event("handler", l.methodSpec.method, seen,
                                           out.err))]
           /\ IF out.err # NoErr
              THEN /\ Fail400(t, out.err)
                   /\ ctxHeap' = Drop(ctxHeap, {l.ctx})
              ELSE /\ LoopOrNext(t, afterFns, 0, "serve_after", "serve_reply",
                                 [reply |-> out.reply] @@ l)
                   /\ UNCHANGED <<ctxHeap, ret, resp>>
    /\ UNCHANGED <<registryVars, codecVars, hookVars, crashed, calls>>

\* reply := reflect.New(methodSpec.replyType); the call of the method; then
\* the start of the range over s.afterFns
ServeCall(t) ==
    /\ pc[t] = "serve_call"
    /\ LET l == loc[t]
           seen == ctxHeap[l.ctx]
           out == RunMethod(l.methodSpec, seen, l.args)
       IN  /\ trace' = [trace EXCEPT ![t] =
                           Append(@, Event("handler", l.methodSpec.method, seen,
                                           out.err))]
           /\ IF out.err # NoErr
              THEN /\ Fail400(t, out.err)
                   /\ ctxHeap' = Drop(ctxHeap, {l.ctx})
              ELSE /\ LoopOrNext(t, afterFns, 0, "serve_after", "serve_reply",
                                 [reply |-> out.reply] @@ l)
                   /\ UNCHANGED <<ctxHeap, ret, resp>>
    /\ UNCHANGED <<registryVars, codecVars, hookVars, crashed, calls>>

ServeAfter(t) ==
    /\ pc[t] = "serve_after"
    /\ RunLoop(t, "after", "serve_after", "serve_reply")
    /\ UNCHANGED <<registryVars, codecVars, hookVars, crashed, calls>>

\* ServeReply writing the reply without the x-content-type-options header.
ServeReplyNoHeader(t) ==
    /\ pc[t] = "serve_reply"
    /\ trace' = [trace EXCEPT ![t] =
                    Append(@, Event("encode", "", ctxHeap[loc[t].ctx], NoErr))]
    /\ Finish(t, Response(200, NoErr, loc[t].codec, loc[t].reply, FALSE))
    /\ ctxHeap' = Drop(ctxHeap, {loc[t].ctx})
    /\ UNCHANGED <<registryVars, codecVars, hookVars, crashed, calls>>

\* w.Header().Set("x-content-type-options", "nosniff");
\* codecReq.WriteResponse(w, reply.Interface())
ServeReply(t) ==
    /\ pc[t] = "serve_reply"
    /\ trace' = [trace EXCEPT ![t] =
                    Append(@, Event("encode", "", ctxHeap[loc[t].ctx], NoErr))]
    /\ Finish(t, Response(200, NoErr, loc[t].codec, loc[t].reply, TRUE))
    /\ ctxHeap' = Drop(ctxHeap, {loc[t].ctx})
    /\ UNCHANGED <<registryVars, codecVars, hookVars, crashed, calls>>

-----------------------------------------------------------------------------
(* The server after NewServer(new(Context)), and its behaviours. *)

Init ==
    /\ services = <<>>
    /\ servicesNil = TRUE
    /\ svcHeap = <<>>
    /\ mutex = NoThread
    /\ codecs = <<>>
    /\ codecWriters = {}
    /\ beforeFns = NilSlice
    /\ afterFns = NilSlice
    /\ arrays = <<>>
    /\ hookLog = <<>>
    /\ ctxHeap = <<>>
    /\ pc = [t \in Threads |-> "idle"]
    /\ loc = [t \in Threads |-> IdleLoc]
    /\ ret = [t \in Threads |-> [op |-> "none"]]
    /\ trace = [t \in Threads |-> <<>>]
    /\ resp = [t \in Threads |-> <<>>]
    /\ crashed = FALSE
    /\ calls = [add |-> 0, lookup |-> 0, codec |-> 0, hook |-> 0, serve |-> 0]

RegistrySteps ==
    \E t \in Threads :
        \/ \E rcvr \in Receivers, name \in ServiceNames : AddCall(t, rcvr, name)
        \/ AddLock(t)
        \/ AddCheck(t)
        \/ AddStore(t)
        \/ \E name \in MethodStrings : HasMethodCall(t, name)
        \/ GetLock(t)
        \/ HasMethodRead(t)
        \/ MapCall(t)
        \/ MapLock(t)
        \/ MapRead(t)

CodecSteps ==
    \E t \in Threads :
        \/ \E c \in Codecs, ct \in CodecContentTypes : RegisterCodecCall(t, c, ct)
        \/ RegisterCodecAssign(t)

HookSteps ==
    \E t \in Threads, fn \in HookFns :
        \/ RegisterBeforeFunc(t, fn)
        \/ RegisterAfterFunc(t, fn)

ServeSteps ==
    \E t \in Threads :
        \/ \E req \in Requests : ServeHTTP(t, req)
        \/ ServeCodec(t)
        \/ \E m \in MethodStrings \cup {MethodErr} : ServeMethod(t, m)
        \/ ServeGet(t)
        \/ ServeBefore(t)
        \/ \E a \in ArgTexts \cup {DecodeErr} : ServeDecode(t, a)
        \/ ServeCall(t)
        \/ ServeAfter(t)
        \/ ServeReply(t)

Next ==
    \/ RegistrySteps
    \/ CodecSteps
    \/ ConcurrentMapFatal
    \/ HookSteps
    \/ ServeSteps

Spec == Init /\ [][Next]_vars

\* The registry alone: threads calling RegisterService, HasMethod and
\* ServiceMap concurrently.
SpecRegistry == Init /\ [][RegistrySteps]_vars

\* no call is in progress
Quiet == \A u \in Threads : pc[u] = "idle"

\* no registration call is in progress
NoRegistration == \A u \in Threads : loc[u].op \in {"none", "serve"}

\* the thread that sets the server up
MainThread == "t1"

\* Requests without a Content-Type, with one that names the JSON codec in
\* upper case and with a parameter, and with one no codec is registered for.
DispatchRequests ==
    {r \in Requests :
        /\ r.contentType \in { <<>>, <<"J", ";", "c">>, Str("x") }
        /\ r.verb = "GET" => (r.contentType = <<>> /\ r.auth = "")}

\* What the codec reads as the method: a registered one, an unknown method,
\* an unknown service, a string without a dot, with two dots, with an empty
\* method or service part, or nothing it can parse.
DispatchMethods ==
    { <<"T", ".", "H">>, <<"T", ".", "Z">>, <<"Z", ".", "H">>, <<"T", "H">>,
      <<"T", ".", "H", ".", "Z">>, <<"T", ".">>, <<".", "H">>, MethodErr }

\* The server as the README uses it: the main thread registers a codec, a
\* service and hooks before the first request, and requests are served
\* concurrently once no registration is in progress.
DispatchSetup ==
    /\ Quiet
    /\ calls.serve = 0
    /\ \/ codecs = <<>> /\ RegisterCodecCall(MainThread, "jsonCodec", Str("j"))
       \/ services = <<>> /\ AddCall(MainThread, Rcvr("TestService", 1), <<>>)
       \/ /\ codecs # <<>>
          /\ services # <<>>
          /\ calls.hook < MaxDispatchHooks
          /\ \E fn \in ValidFns : \/ RegisterBeforeFunc(MainThread, fn)
                                  \/ RegisterAfterFunc(MainThread, fn)

\* the steps of the setup calls and of the requests, the requests drawn from
\* reqs and the method strings their codec reads from methods
DispatchStepsOver(reqs, methods) ==
    \E t \in Threads :
        \/ RegisterCodecAssign(t)
        \/ AddLock(t)
        \/ AddCheck(t)
        \/ AddStore(t)
        \/ NoRegistration /\ \E req \in reqs : ServeHTTP(t, req)
        \/ ServeCodec(t)
        \/ \E m \in methods : ServeMethod(t, m)
        \/ GetLock(t)
        \/ ServeGet(t)
        \/ ServeBefore(t)
        \/ \E a \in ArgTexts \cup {DecodeErr} : ServeDecode(t, a)
        \/ ServeCall(t)
        \/ ServeAfter(t)
        \/ ServeReply(t)

DispatchSteps == DispatchStepsOver(DispatchRequests, DispatchMethods)

NextDispatch == DispatchSetup \/ DispatchSteps

SpecDispatch == Init /\ [][NextDispatch]_vars

\* Requests that end with each status: a verb that is not POST, a
\* Content-Type no codec is registered for, and none, with and without the
\* Authorization header.
StatusRequests ==
    {r \in DispatchRequests : r.contentType \in { <<>>, Str("x") }}

\* a registered method, an unknown one, and nothing the codec can parse
StatusMethods == { <<"T", ".", "H">>, <<"T", ".", "Z">>, MethodErr }

StatusSteps == DispatchStepsOver(StatusRequests, StatusMethods)

\* The server set up as for SpecDispatch, with the scheduler's fairness: a
\* call that can take its next step (a goroutine that is runnable, a mutex
\* that is free) does take it.
FairDispatch ==
    Init /\ [][DispatchSetup \/ StatusSteps]_vars /\ WF_vars(StatusSteps)

\* the one request served while the hook lists are looked at
HookRequest == [verb |-> "POST", contentType |-> <<>>, auth |-> "MyToken"]

\* the thread that serves it
ServerThread == "t2"

\* The main thread registers a codec, a service and then functions of any
\* shape, before and after, in any order, before the first request.
HookSetup ==
    /\ Quiet
    /\ calls.serve = 0
    /\ \/ codecs = <<>> /\ RegisterCodecCall(MainThread, "jsonCodec", Str("j"))
       \/ services = <<>> /\ AddCall(MainThread, Rcvr("TestService", 1), <<>>)
       \/ /\ codecs # <<>>
          /\ services # <<>>
          /\ \E fn \in HookFns  : \/ RegisterBeforeFunc(MainThread, fn)
                                  \/ RegisterAfterFunc(MainThread, fn)

HookServeSteps ==
    \/ RegisterCodecAssign(MainThread)
    \/ AddLock(MainThread)
    \/ AddCheck(MainThread)
    \/ AddStore(MainThread)
    \/ NoRegistration /\ ServeHTTP(ServerThread, HookRequest)
    \/ ServeCodec(ServerThread)
    \/ ServeMethod(ServerThread, <<"T", ".", "H">>)
    \/ GetLock(ServerThread)
    \/ ServeGet(ServerThread)
    \/ ServeBefore(ServerThread)
    \/ \E a \in ArgTexts : ServeDecode(ServerThread, a)
    \/ ServeCall(ServerThread)
    \/ ServeAfter(ServerThread)
    \/ ServeReply(ServerThread)

NextHooks == HookSetup \/ HookServeSteps

SpecHooks == Init /\ [][NextHooks]_vars

\* Requests that differ in verb and Content-Type only.
CodecRequests ==
    {r \in Requests : r.auth = "" /\ (r.verb = "GET" => r.contentType = <<>>)}

\* The codec table under concurrent use: threads register codecs while
\* others serve requests (no service is registered: every request that gets
\* a codec ends at the lookup of its method).
CodecTableSteps ==
    \E t \in Threads :
        \/ \E c \in Codecs, ct \in CodecContentTypes : RegisterCodecCall(t, c, ct)
        \/ RegisterCodecAssign(t)
        \/ \E req \in CodecRequests : ServeHTTP(t, req)
        \/ ServeCodec(t)
        \/ \E m \in {<<"T", ".", "H">>, MethodErr} : ServeMethod(t, m)
        \/ GetLock(t)
        \/ ServeGet(t)

NextCodec == CodecTableSteps \/ ConcurrentMapFatal

SpecCodec == Init /\ [][NextCodec]_vars

-----------------------------------------------------------------------------
(* Properties of the registry. *)

\* what the registry holds: per service name, the stored service
Registry == [n \in DOMAIN services |-> svcHeap[services[n]]]

\* the (service name, method name) pairs the registry holds
Pairs(reg) == UNION {{<<n, m>> : m \in DOMAIN reg[n].methods} : n \in DOMAIN reg}

\* the threads whose add call returns in this step
AddReturns(t) == pc[t] \in {"add_check", "add_store"} /\ pc'[t] = "idle"

\* the methods of each receiver type that have the shape
\* (ctx *Context, args *A, reply *R) error
QualifyingMethods(ty) ==
    CASE ty \in {"TestService", "Embedding"} -> {Str("H")}
      [] ty = "Mixed" -> {Str("G"), Str("H")}
      [] OTHER -> {}

\* get(name) succeeds
GetOk(name) ==
    LET parts == Split(name, ".") IN
    /\ ~IllFormed(parts)
    /\ Lookup(parts).err = NoErr

Dotted(n, m) == n \o <<".">> \o m

\* C3: an add whose resolved service name is already registered returns an
\* error and leaves the registry unchanged: the service names, and the
\* receiver, the methods and the descriptors stored under every name, are the
\* same after the call's step as before it.
C3_DuplicateAddRejected ==
    [][\A t \in Threads :
          ( /\ pc[t] \in {"add_check", "add_store"}
            /\ pc'[t] # pc[t]
            /\ svcHeap[loc[t].s].name \in DOMAIN services )
          => ( /\ pc'[t] = "idle"
               /\ ret'[t].op = "add"
               /\ ret'[t].err # NoErr
               /\ DOMAIN services' = DOMAIN services
               /\ Registry' = Registry )]_vars

\* the name a returned add call resolved: its name argument, or the name of
\* the receiver's type when the argument is empty
ResolvedOf(r) == IF r.name = <<>> THEN TypeName(r.rcvr) ELSE r.name

\* C3 witness: an add has returned "already defined" and the name it resolved
\* is held by the service registered first.
C3_Witness ==
    \E t \in Threads :
        /\ ret[t].op = "add"
        /\ ret[t].err = "already defined"
        /\ ResolvedOf(ret[t]) \in DOMAIN services

\* the pairs listed by a value Map returned
ListedPairs(r) == UNION {{<<n, r[n][i]>> : i \in DOMAIN r[n]} : n \in DOMAIN r}

NoRepeats(q) == \A i, j \in DOMAIN q : q[i] = q[j] => i = j

\* C4: Map returns exactly the (service, method) pairs of the successful
\* registrations, each once: the pairs the registry holds grow by the
\* qualifying methods of the receiver, under the resolved name, when an add
\* returns nil and by nothing in any other step, and Map lists exactly the
\* pairs the registry holds, none twice.
C4_MapListsRegisteredPairs ==
    [][ /\ \A t \in Threads :
             (pc[t] = "map_read" /\ pc'[t] = "idle")
             => /\ ret'[t].op = "map"
                /\ ListedPairs(ret'[t].val) = Pairs(Registry)
                /\ \A n \in DOMAIN ret'[t].val : NoRepeats(ret'[t].val[n])
        /\ Pairs(Registry') =
             Pairs(Registry) \cup
             UNION {{<<ResolvedOf(ret'[t]), m>> : m \in QualifyingMethods(ret'[t].rcvr)} :
                      t \in {u \in Threads : AddReturns(u) /\ ret'[u].err = NoErr}}
      ]_vars

\* C4 witness: Map has returned a listing with at least two pairs while an
\* add of another thread had failed.
C4_Witness ==
    \E t, u \in Threads :
        /\ ret[t].op = "map"
        /\ Cardinality(ListedPairs(ret[t].val)) >= 2
        /\ ret[u].op = "add"
        /\ ret[u].err # NoErr

DotFree(n) == \A i \in DOMAIN n : n[i] # "."

\* an add with an explicit name and a receiver with qualifying methods
\* succeeds unless the name is taken, and stores the service it built
ExplicitAddsSucceed ==
    \A t \in Threads :
        (ret[t].op = "add" /\ ret[t].name # <<>> /\ QualifyingMethods(ret[t].rcvr) # {})
        => /\ ret[t].err \in {NoErr, "already defined"}
           /\ ret[t].name \in DOMAIN services
           /\ ret[t].err = NoErr => services[ret[t].name] = ret[t].s

\* two services of the same receiver type are both addressable through get
\* and expose the same method names
BothAddressable(n1, n2) ==
    /\ \A n \in {n1, n2} : \A m \in QualifyingMethods(Registry[n].rValue.type) :
          GetOk(Dotted(n, m))
    /\ DOMAIN Registry[n1].methods = DOMAIN Registry[n2].methods

SameType(n1, n2) == Registry[n1].rValue.type = Registry[n2].rValue.type

\* C5 as stated: registering the same receiver type under any two distinct
\* non-empty explicit names succeeds, and get("N.M") succeeds for both names
\* N and every method M, the two services exposing the same method names.
C5_AnyTwoNamesAddressable ==
    /\ ExplicitAddsSucceed
    /\ \A n1, n2 \in DOMAIN services :
          (n1 # n2 /\ SameType(n1, n2)) => BothAddressable(n1, n2)

\* C5 amended: the same, for two distinct non-empty explicit names holding
\* no "." (get splits "N.M" at every dot, so a service whose name holds a dot
\* is registered but never found).
C5_DotFreeNamesAddressable ==
    /\ ExplicitAddsSucceed
    /\ \A n1, n2 \in DOMAIN services :
          (n1 # n2 /\ SameType(n1, n2) /\ DotFree(n1) /\ DotFree(n2))
          => BothAddressable(n1, n2)

\* C5 witness: both threads registered the same receiver type under distinct
\* explicit dot-free names, and both services are in the registry.
C5_Witness ==
    \E t, u \in Threads :
        /\ ret[t].op = "add" /\ ret[t].err = NoErr /\ ret[t].name # <<>>
        /\ ret[u].op = "add" /\ ret[u].err = NoErr /\ ret[u].name # <<>>
        /\ ret[t].name # ret[u].name
        /\ ret[t].rcvr = ret[u].rcvr
        /\ DotFree(ret[t].name) /\ DotFree(ret[u].name)
        /\ {ret[t].name, ret[u].name} \subseteq DOMAIN services

\* C6: a successful get("S.M") returns the descriptor stored under M in the
\* service registered as S, and the descriptor's service is that service
\* (d.service.methods[M] = d); a descriptor a get call returned stays the one
\* stored there.
C6_GetReturnsStoredDescriptor ==
    /\ \A name \in MethodStrings :
          LET parts == Split(name, ".") IN
          (~IllFormed(parts) /\ Lookup(parts).err = NoErr)
          => LET d == Lookup(parts).method IN
             /\ d.service \in DOMAIN svcHeap
             /\ d.service = services[parts[1]]
             /\ svcHeap[d.service].name = parts[1]
             /\ d.method = parts[2]
             /\ svcHeap[d.service].methods[parts[2]] = d
    /\ \A t \in Threads :
          (ret[t].op = "has" /\ ret[t].val)
          => LET d == ret[t].method IN
             /\ d.service \in DOMAIN svcHeap
             /\ d.method \in DOMAIN svcHeap[d.service].methods
             /\ svcHeap[d.service].methods[d.method] = d
             /\ Lookup(<<svcHeap[d.service].name, d.method>>).method = d

\* C6 witness: a get call has succeeded and returned a descriptor.
C6_Witness ==
    \E t \in Threads : ret[t].op = "has" /\ ret[t].val /\ ret[t].method # NoMethod

CriticalPcs == {"add_check", "add_store", "get_read", "map_read"}

\* C9: registry operations are atomic under interleaving: a thread between
\* Lock and Unlock holds the mutex (so no two are there together); the name add
\* found free is still free when add stores under it; of the add calls that
\* resolved one name at most one returned nil, its service is the stored one
\* and a call that failed as a duplicate left another's service stored; and
\* every stored service has all its qualifying methods.
C9_RegistryAtomic ==
    /\ \A t \in Threads : pc[t] \in CriticalPcs => mutex = t
    /\ \A t \in Threads :
          pc[t] = "add_store" => svcHeap[loc[t].s].name \notin DOMAIN services
    /\ \A t, u \in Threads :
          (t # u /\ ret[t].op = "add" /\ ret[u].op = "add"
             /\ ret[t].err = NoErr /\ ret[u].err = NoErr)
          => ResolvedOf(ret[t]) # ResolvedOf(ret[u])
    /\ \A t \in Threads :
          (ret[t].op = "add" /\ ret[t].err \in {NoErr, "already defined"})
          => /\ ResolvedOf(ret[t]) \in DOMAIN services
             /\ (ret[t].err = NoErr) <=> (services[ResolvedOf(ret[t])] = ret[t].s)
    /\ \A n \in DOMAIN services :
          /\ Registry[n].name = n
          /\ DOMAIN Registry[n].methods = QualifyingMethods(Registry[n].rValue.type)

\* C9 witness: two add calls that resolved one name overlapped (the one that
\* built its service first returned last): the later caller's service is
\* stored and the earlier caller got "already defined".
C9_Witness ==
    \E t, u \in Threads :
        /\ t # u
        /\ ret[t].op = "add" /\ ret[t].err = NoErr
        /\ ret[u].op = "add" /\ ret[u].err = "already defined"
        /\ ResolvedOf(ret[t]) = ResolvedOf(ret[u])
        /\ ret[u].s < ret[t].s
        /\ services[ResolvedOf(ret[t])] = ret[t].s

-----------------------------------------------------------------------------
(* Properties of the codec table. *)

\* thread t picks the codec of a request without Content-Type header while
\* no registration is in progress
NoHeaderSelection(t) ==
    /\ pc[t] = "serve_codec"
    /\ pc'[t] # "serve_codec"
    /\ loc[t].req.contentType = <<>>
    /\ codecWriters = {}
    /\ ~crashed'

\* the request goes on with codec c
GoesOnWith(t, c) == pc'[t] = "serve_method" /\ loc'[t].codec = c

\* the request ends with status 415, nothing else written, nothing run
Ends415(t) ==
    /\ pc'[t] = "idle"
    /\ ret'[t].op = "serve" /\ ret'[t].status = 415
    /\ Len(resp'[t]) = 1 /\ resp'[t][1].status = 415 /\ resp'[t][1].via = "plain"
    /\ trace'[t] = <<>>

OnlyCodec == codecs[CHOOSE k \in DOMAIN codecs : TRUE]

\* C7 as stated: without Content-Type header, one registered codec is used,
\* and with two codecs registered under any two distinct keys the request
\* ends with status 415 and no codec adapter, hook or handler is used.
C7_TwoCodecsAlways415 ==
    [][\A t \in Threads :
          NoHeaderSelection(t)
          => /\ Cardinality(DOMAIN codecs) = 1 => GoesOnWith(t, OnlyCodec)
             /\ Cardinality(DOMAIN codecs) = 2 => Ends415(t)]_vars

\* C7 amended: the same, for two codecs registered under two distinct
\* non-empty keys (a codec registered under the empty content type is found
\* by the lookup of the empty Content-Type, so the request is served by it).
C7_TwoNamedCodecs415 ==
    [][\A t \in Threads :
          NoHeaderSelection(t)
          => /\ Cardinality(DOMAIN codecs) = 1 => GoesOnWith(t, OnlyCodec)
             /\ (Cardinality(DOMAIN codecs) = 2 /\ <<>> \notin DOMAIN codecs)
                => Ends415(t)]_vars

\* C7 witness: with two codecs under non-empty keys, a request without
\* Content-Type header has ended with status 415.
C7_Witness ==
    \E t \in Threads :
        /\ ret[t].op = "serve"
        /\ ret[t].req.verb = "POST"
        /\ ret[t].req.contentType = <<>>
        /\ ret[t].status = 415
        /\ codecWriters = {}
        /\ Cardinality(DOMAIN codecs) = 2
        /\ <<>> \notin DOMAIN codecs

\* C8: accesses to the codec table are mutually exclusive: while a thread
\* is inside RegisterCodec's write no other thread reads or writes the table
\* (and so the runtime never finds the map in concurrent use).
C8_CodecTableExclusive == ~CodecRace /\ ~crashed

-----------------------------------------------------------------------------
(* Properties of the request pipeline. *)

\* the requests that have returned
Served(t) == pc[t] = "idle" /\ ret[t].op = "serve"

\* the request of thread t: of the call in progress, or of the one that returned
RequestOf(t) == IF pc[t] = "idle" THEN ret[t].req ELSE loc[t].req

RECURSIVE Filter(_, _)
Filter(q, ev) ==
    IF q = <<>> THEN <<>>
    ELSE IF Head(q).ev = ev THEN <<Head(q).fn>> \o Filter(Tail(q), ev)
    ELSE Filter(Tail(q), ev)

\* the functions a request ran in its before (after) phase, in order
Ran(t, ev) == Filter(trace[t], ev)

RECURSIVE LogOf(_, _)
LogOf(q, kind) ==
    IF q = <<>> THEN <<>>
    ELSE IF Head(q).kind = kind THEN <<Head(q).fn>> \o LogOf(Tail(q), kind)
    ELSE LogOf(Tail(q), kind)

\* the functions RegisterBeforeFunc (RegisterAfterFunc) accepted, in order
Registered(kind) == LogOf(hookLog, kind)

IsPrefix(p, q) == Len(p) <= Len(q) /\ SubSeq(q, 1, Len(p)) = p

\* the handler of the request ran and returned nil
HandlerReturnedNil(t) ==
    \E i \in DOMAIN trace[t] : trace[t][i].ev = "handler" /\ trace[t][i].err = NoErr

\* C1: on a request whose handler returned nil, the hooks run after the
\* handler are exactly the functions RegisterAfterFunc accepted, each once, in
\* registration order (up to the first that returns an error): no function
\* registered through RegisterBeforeFunc among them, none dropped.
C1_AfterPhaseRunsAfterHooks ==
    \A t \in Threads :
        (Served(t) /\ HandlerReturnedNil(t))
        => /\ IsPrefix(Ran(t, "after"), Registered("after"))
           /\ ret[t].status = 200 => Ran(t, "after") = Registered("after")

\* C2: a before-hook that returns an error is the last thing its request
\* runs (no later before-hook, no decoding, no handler, no after-hook), and
\* the request ends with exactly one response, of status 400, carrying that
\* error.
C2_BeforeHookErrorAborts ==
    \A t \in Threads : \A i \in DOMAIN trace[t] :
        (trace[t][i].ev = "before" /\ trace[t][i].err # NoErr)
        => /\ i = Len(trace[t])
           /\ Served(t)
           /\ ret[t].status = 400
           /\ Len(resp[t]) = 1
           /\ resp[t][1].status = 400
           /\ resp[t][1].err = trace[t][i].err
           /\ resp[t][1].via # "plain"

\* C2 witness: two before-hooks are registered, the first returned an error
\* and the request ended there with status 400.
C2_Witness ==
    \E t \in Threads :
        /\ Served(t)
        /\ beforeFns.len = 2
        /\ Len(trace[t]) = 1
        /\ trace[t][1].ev = "before" /\ trace[t][1].err = "denied"
        /\ ret[t].status = 400

\* the pcs at which a request holds a context
CtxPcs == {"serve_before", "serve_decode", "serve_call", "serve_after", "serve_reply"}

\* the context after the first n events of a request, from the zero value
RECURSIVE Replay(_, _, _)
Replay(q, req, n) ==
    IF n = 0 THEN ZeroCtx
    ELSE LET c == Replay(q, req, n - 1) IN
         IF q[n].ev \in {"before", "after"} THEN RunHook(q[n].fn, req, c).ctx ELSE c

\* C10: every request has its own zero-valued context: what a hook or the
\* handler of a request sees in the context is what the earlier hooks of the
\* same request made of the zero value (so the first one sees the zero
\* value, and no write of another request is seen), and two requests in
\* progress never hold the same context object.
C10_ContextPerRequest ==
    /\ \A t \in Threads : \A i \in DOMAIN trace[t] :
          trace[t][i].ctx = Replay(trace[t], RequestOf(t), i - 1)
    /\ \A t \in Threads :
          pc[t] \in CtxPcs => ctxHeap[loc[t].ctx] = Replay(trace[t], loc[t].req, Len(trace[t]))
    /\ \A t, u \in Threads :
          (t # u /\ pc[t] \in CtxPcs /\ pc[u] \in CtxPcs) => loc[t].ctx # loc[u].ctx

\* C10 witness: two requests with different Authorization headers are in
\* progress, each after a hook wrote its header into its context, and each
\* context holds its own request's header.
C10_Witness ==
    \E t, u \in Threads :
        /\ t # u
        /\ pc[t] \in CtxPcs /\ pc[u] \in CtxPcs
        /\ loc[t].req.auth = "MyToken" /\ loc[u].req.auth = ""
        /\ \E i \in DOMAIN trace[t] : trace[t][i].fn = "FetchAuthToken"
        /\ \E i \in DOMAIN trace[u] : trace[u][i].fn = "FetchAuthToken"
        /\ ctxHeap[loc[t].ctx].AuthToken = "MyToken"
        /\ ctxHeap[loc[u].ctx].AuthToken = ""

\* the request of thread t ran FetchAuthToken as a before function
FetchedToken(t) ==
    \E j \in DOMAIN trace[t] :
        trace[t][j].ev = "before" /\ trace[t][j].fn = "FetchAuthToken"

\* C11: the handler gets the context the before functions left: in a request
\* whose before functions include FetchAuthToken, the call of Hello sees the
\* request's Authorization header in the context; with the matching header
\* it returns nil with the reply holding the text of the arguments, and that
\* reply is the one the response carries with status 200; without it the
\* request ends with status 400 and the handler's error.
C11_HandlerSeesHookContext ==
    [][\A t \in Threads :
          /\ (pc[t] = "serve_call" /\ pc'[t] # "serve_call" /\ FetchedToken(t))
             => LET h == trace'[t][Len(trace'[t])] IN
                /\ h.ev = "handler"
                /\ h.ctx = ctxHeap[loc[t].ctx]
                /\ h.ctx.AuthToken = loc[t].req.auth
                /\ IF loc[t].req.auth = "MyToken"
                   THEN /\ h.err = NoErr
                        /\ pc'[t] \in {"serve_after", "serve_reply"}
                        /\ loc'[t].reply = [Text |-> loc[t].args.Text]
                   ELSE /\ h.err = "authorization fail"
                        /\ pc'[t] = "idle"
                        /\ ret'[t].status = 400
                        /\ Len(resp'[t]) = 1
                        /\ resp'[t][1].err = "authorization fail"
          /\ (pc[t] = "serve_reply" /\ pc'[t] # "serve_reply")
             => /\ pc'[t] = "idle"
                /\ ret'[t].status = 200
                /\ Len(resp'[t]) = 1
                /\ resp'[t][1].reply = loc[t].reply
                /\ resp'[t][1].err = NoErr]_vars

\* C11 witness: with FetchAuthToken run before the handler, one request with
\* the matching header got status 200 and the text it sent, and one without
\* the header got status 400 with the handler's error.
C11_Witness ==
    \E t, u \in Threads :
        /\ Served(t) /\ FetchedToken(t)
        /\ ret[t].req.auth = "MyToken" /\ ret[t].status = 200
        /\ resp[t][1].reply.Text \in ArgTexts
        /\ Served(u) /\ FetchedToken(u)
        /\ ret[u].req.auth = "" /\ ret[u].status = 400
        /\ resp[u][1].err = "authorization fail"

\* a request of thread t is in progress
Serving(t) == pc[t] # "idle" /\ loc[t].op = "serve"

\* the Content-Type of the request names a registered codec, or there is
\* none and one codec is registered
Resolves(req) ==
    LET ct == StripParams(req.contentType) IN
    \/ ct = <<>> /\ Cardinality(DOMAIN codecs) = 1
    \/ ToLower(ct) \in DOMAIN codecs

\* every step of the pipeline of the request succeeded, up to the encoding
AllStepsSucceeded(t) ==
    /\ trace[t] # <<>>
    /\ \A i \in DOMAIN trace[t] : trace[t][i].err = NoErr
    /\ \E i \in DOMAIN trace[t] : trace[t][i].ev = "decode"
    /\ \E i \in DOMAIN trace[t] : trace[t][i].ev = "handler"
    /\ trace[t][Len(trace[t])].ev = "encode"

\* a request in progress has written nothing; one that returned has written
\* one response, of status 200, 400, 405 or 415
OneResponse ==
    \A t \in Threads :
        /\ Serving(t) => resp[t] = <<>>
        /\ Served(t)
           => /\ Len(resp[t]) = 1
              /\ resp[t][1].status = ret[t].status
              /\ ret[t].status \in {200, 400, 405, 415}
              /\ ret[t].status = 405 <=> ret[t].req.verb # "POST"
              /\ ret[t].status = 405 => trace[t] = <<>> /\ resp[t][1].via = "plain"
              /\ ret[t].status = 415
                 <=> (ret[t].req.verb = "POST" /\ ~Resolves(ret[t].req))
              /\ ret[t].status = 200
                 => AllStepsSucceeded(t) /\ resp[t][1].nosniff

\* C12: every dispatch terminates having written exactly one response, of
\* status 200, 400, 405 or 415: 405 exactly when the verb is not POST (nothing
\* else done), 415 exactly when the verb is POST and no codec is resolved, 200
\* only when every step succeeded, and every 200 response carries the header
\* x-content-type-options: nosniff.
C12_OneResponsePerDispatch ==
    /\ []OneResponse
    /\ \A t \in Threads : Serving(t) ~> Served(t)

\* C12 witness: requests have ended with each of the four statuses.
C12_Witness ==
    \E t, u \in Threads :
        /\ Served(t) /\ Served(u)
        /\ ret[t].status = 200 /\ resp[t][1].nosniff
        /\ ret[u].status = 415

\* the request ends with status 400 written through its codec, and nothing
\* was run for it: no hook, no decoding, no handler, no context made
EndsBadMethod(t) ==
    /\ pc'[t] = "idle"
    /\ ret'[t].op = "serve" /\ ret'[t].status = 400
    /\ Len(resp'[t]) = 1
    /\ resp'[t][1].status = 400
    /\ resp'[t][1].err # NoErr
    /\ resp'[t][1].via = loc[t].codec
    /\ trace'[t] = <<>>
    /\ ctxHeap' = ctxHeap

\* parts are two non-empty names, of a registered service and of one of its
\* methods
NamesRegisteredMethod(parts) ==
    /\ Len(parts) = 2
    /\ parts[1] # <<>> /\ parts[2] # <<>>
    /\ parts[1] \in DOMAIN Registry
    /\ parts[2] \in QualifyingMethods(Registry[parts[1]].rValue.type)

\* C13: a POST with a resolved codec whose method name is malformed or names
\* no registered service and method ends with a status-400 error written by
\* the codec, and no context is made, no hook, decoding or handler runs: the
\* request gets past the method name only with a name of two parts, and past
\* get only with two non-empty parts naming a registered method.
C13_BadMethodNameEnds400 ==
    [][\A t \in Threads :
          /\ (pc[t] = "serve_method" /\ pc'[t] # "serve_method")
             => \/ EndsBadMethod(t)
                \/ pc'[t] = "get_lock" /\ Len(loc'[t].parts) = 2
          /\ (pc[t] = "get_read" /\ loc[t].op = "serve" /\ pc'[t] # "get_read")
             => IF NamesRegisteredMethod(loc[t].parts)
                THEN pc'[t] \in {"serve_before", "serve_decode"}
                ELSE EndsBadMethod(t)]_vars

\* C13 witness: one request has ended with status 400 for an ill-formed
\* method name and one for a method get did not find, nothing run for either.
C13_Witness ==
    \E t, u \in Threads :
        /\ Served(t) /\ ret[t].status = 400 /\ trace[t] = <<>>
        /\ resp[t][1].err = "ill-formed"
        /\ Served(u) /\ ret[u].status = 400 /\ trace[u] = <<>>
        /\ resp[u][1].err = "can't find method"

\* the add calls with a non-nil receiver and a non-empty resolved name
NamedAdd(r) == r.op = "add" /\ r.rcvr # "nil" /\ ResolvedOf(r) # <<>>

\* the service holds the qualifying methods of its receiver's type, no other
HoldsQualifying(svc) ==
    /\ DOMAIN svc.methods = QualifyingMethods(svc.rValue.type)
    /\ \A m \in DOMAIN svc.methods : svc.methods[m].method = m

-----------------------------------------------------------------------------
(* Properties of the hook lists. *)

\* fn is a func(*http.Request, *Context) error
ExactShape(fn) == fn # "nil" /\ FnType(fn) = HookType

\* the Register...Func call of thread t returns in this step
RegisterReturns(t) ==
    /\ calls'.hook = calls.hook + 1
    /\ pc[t] = "idle" /\ pc'[t] = "idle"
    /\ ret'[t].op \in {"before", "after"}
    /\ \A u \in Threads \ {t} : ret'[u] = ret[u]

\* every function in the two lists, and every hook a request ran, has the
\* shape validCtxFunc asks for
OnlyValidHooks ==
    /\ \A i \in 1..beforeFns.len : ExactShape(arrays[beforeFns.arr][i])
    /\ \A i \in 1..afterFns.len : ExactShape(arrays[afterFns.arr][i])
    /\ \A t \in Threads : \A i \in DOMAIN trace[t] :
          trace[t][i].ev \in {"before", "after"} => ExactShape(trace[t][i].fn)

\* C15: RegisterBeforeFunc and RegisterAfterFunc return an error exactly for
\* a function that is not a func(*http.Request, *Context) error, and then
\* both lists (headers and elements) are as before the call; so every hook in
\* the lists, and every hook a request runs, has that shape.
C15_InvalidHookNotInstalled ==
    [][ /\ \A t \in Threads :
             RegisterReturns(t)
             => /\ ret'[t].err # NoErr <=> ~ExactShape(ret'[t].fn)
                /\ ret'[t].err # NoErr
                   => /\ beforeFns' = beforeFns
                      /\ afterFns' = afterFns
                      /\ arrays' = arrays
                      /\ hookLog' = hookLog
        /\ OnlyValidHooks'
      ]_vars

\* C15 witness: a function of a wrong shape was refused after two functions
\* were installed, and a request then ran the installed ones.
C15_Witness ==
    /\ ret[MainThread].op \in {"before", "after"}
    /\ ret[MainThread].fn = "ReturnsBool"
    /\ ret[MainThread].err # NoErr
    /\ Len(hookLog) = 2
    /\ Served(ServerThread)
    /\ Len(Ran(ServerThread, "before")) >= 1

\* the before list holds the functions RegisterBeforeFunc accepted, in order
BeforeListIsLog == Elems(beforeFns, arrays) = Registered("before")

\* the request of thread t is past its before phase
PastBefore(t) ==
    \/ pc[t] \in {"serve_decode", "serve_call", "serve_after", "serve_reply"}
    \/ Served(t) /\ \E i \in DOMAIN trace[t] : trace[t][i].ev = "decode"

\* C16: the hooks a request runs before the handler are the functions
\* RegisterBeforeFunc accepted, each once, in registration order (all of them
\* once the request is past its before phase, and up to the first that
\* returned an error otherwise), and a RegisterAfterFunc call leaves the
\* before list, its length and its elements, as it was.
C16_BeforePhaseRunsBeforeHooks ==
    [][ /\ BeforeListIsLog'
        /\ \A t \in Threads :
             /\ IsPrefix(Ran(t, "before"), Registered("before"))'
             /\ PastBefore(t)' => (Ran(t, "before") = Registered("before"))'
        /\ \A t \in Threads :
             (RegisterReturns(t) /\ ret'[t].op = "after")
             => /\ beforeFns' = beforeFns
                /\ Elems(beforeFns', arrays') = Elems(beforeFns, arrays)
      ]_vars

\* C16 witness: RegisterAfterFunc appended in place to the array of a before
\* list of three functions, and a request then ran the three before its
\* handler.
C16_Witness ==
    /\ beforeFns.len = 3
    /\ afterFns.len = 4
    /\ afterFns.arr = beforeFns.arr
    /\ Served(ServerThread)
    /\ Len(Ran(ServerThread, "before")) = 3
    /\ HandlerReturnedNil(ServerThread)

-----------------------------------------------------------------------------
(* Properties of the codec table's keys. *)

\* s with its upper-case letters replaced by the lower-case ones
LowerCase(s) ==
    [i \in DOMAIN s |-> IF s[i] = "J" THEN "j" ELSE IF s[i] = "X" THEN "x" ELSE s[i]]

\* the table with codec c registered under content type ct, last
\* registration winning
WithCodec(table, ct, c) ==
    [k \in DOMAIN table \cup {LowerCase(ct)} |->
        IF k = LowerCase(ct) THEN c ELSE table[k]]

\* C17: the codec table is keyed by the lower-cased content type and the
\* last registration for a key wins: a RegisterCodec call (none other in
\* progress) puts its codec under the lower-cased content type, replacing the
\* codec that was there and leaving the other keys alone, so that content
\* types differing in case share one entry; and a request whose Content-Type,
\* up to its first ";" and in lower case, is a key of the table is served by
\* the codec under that key.
C17_CodecKeyedByLowerCase ==
    [][ /\ \A t \in Threads :
             (pc[t] = "codec_assign" /\ pc'[t] = "idle" /\ codecWriters = {t})
             => /\ codecs' = WithCodec(codecs, loc[t].contentType, loc[t].codec)
                /\ ret'[t].contentType = loc[t].contentType
        /\ \A k \in DOMAIN codecs' : LowerCase(k) = k
        /\ \A t \in Threads :
             LET ct == StripParams(loc[t].req.contentType) IN
             ( /\ pc[t] = "serve_codec" /\ pc'[t] # "serve_codec"
               /\ codecWriters = {} /\ ~crashed'
               /\ ct # <<>>
               /\ LowerCase(ct) \in DOMAIN codecs )
             => GoesOnWith(t, codecs[LowerCase(ct)])
      ]_vars

\* C17 witness: codecs were registered under "j" and under "J", one entry is
\* in the table, holding the codec registered under "J", and that codec
\* serves a request without Content-Type and one with Content-Type "J;c".
C17_Witness ==
    \E t, u \in Threads :
        /\ t # u
        /\ ret[t].op = "codec" /\ ret[t].contentType = Str("j")
        /\ ret[t].codec = "jsonCodec"
        /\ ret[u].op = "codec" /\ ret[u].contentType = Str("J")
        /\ ret[u].codec = "xmlCodec"
        /\ codecs = (Str("j") :> "xmlCodec")
        /\ pc[t] = "serve_method" /\ loc[t].codec = "xmlCodec"
        /\ loc[t].req.contentType = <<>>
        /\ pc[u] = "serve_method" /\ loc[u].codec = "xmlCodec"
        /\ loc[u].req.contentType = <<"J", ";", "c">>

-----------------------------------------------------------------------------
(* The registry over time. *)

\* what get(name) returns
GetResult(name) ==
    LET parts == Split(name, ".") IN
    IF IllFormed(parts) THEN [err |-> "ill-formed", method |-> NoMethod]
    ELSE Lookup(parts)

\* C18: the registry only grows: in every step, whatever add calls start,
\* fail or succeed in it, a name for which get succeeds goes on succeeding
\* with the same descriptor, every service stored stays stored as it is, and a
\* descriptor a HasMethod call found is still the one get returns.
C18_RegistryOnlyGrows ==
    [][ /\ \A name \in MethodStrings :
             GetResult(name).err = NoErr => GetResult(name)' = GetResult(name)
        /\ \A n \in DOMAIN services :
             n \in DOMAIN services' /\ services'[n] = services[n] /\ Registry'[n] = Registry[n]
        /\ \A t \in Threads :
             (ret[t].op = "has" /\ ret[t].val)
             => \E name \in MethodStrings : GetResult(name).method = ret[t].method
      ]_vars

\* C18 witness: a HasMethod call found a method, and an add call made
\* afterwards under the name of the found method's service failed, the
\* service found still the only one.
C18_Witness ==
    \E t, u \in Threads :
        /\ ret[t].op = "has" /\ ret[t].val
        /\ ret[u].op = "add" /\ ret[u].err = "already defined"
        /\ ResolvedOf(ret[u]) = svcHeap[ret[t].method.service].name
        /\ Cardinality(DOMAIN services) = 1
        /\ ret[u].s > ret[t].method.service

-----------------------------------------------------------------------------
(* The order of the pipeline's steps. *)

\* the request of thread t ended at event i: it returned with one response,
\* of status 400, carrying the error of that event
EndedAt(t, i) ==
    /\ i = Len(trace[t])
    /\ Served(t)
    /\ ret[t].status = 400
    /\ Len(resp[t]) = 1
    /\ resp[t][1].status = 400
    /\ resp[t][1].err = trace[t][i].err

\* the events of trace q from index a to index b
Events(q, a, b) == SubSeq(q, a, b)

\* C19: the arguments are decoded only after every before function returned
\* nil, and the handler is called only after the decoding succeeded: the
\* events before the decoding are the before functions, all of them, each
\* with a nil result; the event before the handler's is a decoding without
\* error; a decoding that failed ends the request with status 400, no handler
\* or after function run; and after a before function's error nothing is
\* decoded.
C19_DecodeAfterBeforeHooks ==
    \A t \in Threads : \A i \in DOMAIN trace[t] :
        /\ trace[t][i].ev = "decode"
           => /\ \A j \in 1..(i - 1) :
                    trace[t][j].ev = "before" /\ trace[t][j].err = NoErr
              /\ Filter(Events(trace[t], 1, i - 1), "before") = Elems(beforeFns, arrays)
              /\ trace[t][i].err # NoErr => EndedAt(t, i)
        /\ trace[t][i].ev = "handler"
           => /\ i > 1
              /\ trace[t][i - 1].ev = "decode"
              /\ trace[t][i - 1].err = NoErr
        /\ (trace[t][i].ev = "before" /\ trace[t][i].err # NoErr)
           => \A j \in DOMAIN trace[t] : trace[t][j].ev # "decode"

\* C19 witness: a request ran two before functions, and its decoding failed
\* and ended it with status 400.
C19_Witness ==
    \E t \in Threads :
        /\ Served(t)
        /\ Len(trace[t]) = 3
        /\ trace[t][1].ev = "before" /\ trace[t][2].ev = "before"
        /\ trace[t][3].ev = "decode" /\ trace[t][3].err = DecodeErr
        /\ ret[t].status = 400

\* C20: the reply is encoded only after the handler and every function of
\* the after phase returned nil: the events between the handler's and the
\* encoding are the functions of s.afterFns, all of them, each with a nil
\* result; a handler's error ends the request with status 400 and that error,
\* no function of the after phase run; the first error of a function of the
\* after phase ends the request with status 400 and that error, no later
\* function run and nothing encoded.
C20_EncodeAfterAfterPhase ==
    \A t \in Threads : \A i \in DOMAIN trace[t] :
        /\ trace[t][i].ev = "encode"
           => /\ i = Len(trace[t])
              /\ \E h \in 1..(i - 1) :
                    /\ trace[t][h].ev = "handler" /\ trace[t][h].err = NoErr
                    /\ \A j \in (h + 1)..(i - 1) :
                          trace[t][j].ev = "after" /\ trace[t][j].err = NoErr
                    /\ Filter(Events(trace[t], h + 1, i - 1), "after")
                         = Elems(afterFns, arrays)
        /\ (trace[t][i].ev = "handler" /\ trace[t][i].err # NoErr)
           => EndedAt(t, i)
        /\ trace[t][i].ev = "after"
           => /\ \E h \in 1..(i - 1) :
                    trace[t][h].ev = "handler" /\ trace[t][h].err = NoErr
              /\ trace[t][i].err # NoErr => EndedAt(t, i)

\* C20 witness: the handler of a request returned nil, a function of the
\* after phase returned an error, and the request ended there with status
\* 400 and that error.
C20_Witness ==
    \E t \in Threads :
        /\ Served(t)
        /\ HandlerReturnedNil(t)
        /\ trace[t][Len(trace[t])].ev = "after"
        /\ trace[t][Len(trace[t])].err = "denied"
        /\ ret[t].status = 400
        /\ resp[t][1].err = "denied"

====
